---- MODULE Spec2Model ----
(***************************************************************************)
(* MagLothes storefront: the cart (cart.js), the checkout and order log    *)
(* (checkout.js), the buy-now item (products.js) and the session gate      *)
(* (auth.js), over the browser's localStorage and sessionStorage.          *)
(*                                                                         *)
(* Money is kept in exact fixed point, in units of 1/10000 of a currency   *)
(* unit, so that 8% of any amount of whole cents is an integer.            *)
(***************************************************************************)
EXTENDS Integers, Sequences, FiniteSets, TLC

VARIABLES
    cart,        \* localStorage["fashion-store-cart"]
    users,       \* localStorage["fashion-store-users"]
    orders,      \* localStorage["fashion-store-orders"]
    session,     \* sessionStorage["fashion-store-session"]
    buyNowItem,  \* sessionStorage["buy-now-item"]
    page,        \* the document loaded in the tab and its URL mode
    clock,       \* the wall clock read by Date.now() / new Date()
    lastOp,      \* history: the last cart operation, its arguments and results
    prevOp       \* history: the operation before an addToCart, if on the same line

vars == <<cart, users, orders, session, buyNowItem, page, clock, lastOp, prevOp>>

(***************************************************************************)
(* Bounds of the model.                                                    *)
(***************************************************************************)
\* largest clock value reached
MaxClock == 1
\* largest quantity a cart line is allowed to reach
MaxQty == 2
\* largest number of orders in the order log
MaxOrders == 2
\* largest number of lines in the cart
MaxLines == 2
\* largest number of orders placed while the checkout page is followed
MaxFollowed == 1
\* largest number of registered users
MaxUsers == 2

(***************************************************************************)
(* JavaScript values.                                                      *)
(***************************************************************************)
\* null
Null == [t |-> "null"]
\* a string value
Str(s) == [t |-> "string", s |-> s]
\* truthiness of a value that is null or a string
Truthy(x) == x.t = "string" /\ x.s # ""
\* x || "default"
OrDefault(x) == IF Truthy(x) THEN x.s ELSE "default"

\* a storage key that was never set or was removed: getItem returns null
Absent == [kind |-> "absent"]
\* a storage key holding JSON.stringify(v)
Json(v) == [kind |-> "json", val |-> v]

(***************************************************************************)
(* The catalog (data/products.json): id, name, price, image.               *)
(***************************************************************************)
Product(i, p) ==
    [id |-> i, name |-> "P" \o ToString(i), price |-> p,
     image |-> "img" \o ToString(i)]

Catalog == { Product(1, 200000), Product(2, 500000), Product(3, 199900) }

\* products.find((p) => p.id === id) || null
getProductById(i) ==
    IF \E p \in Catalog : p.id = i
    THEN CHOOSE p \in Catalog : p.id = i
    ELSE Null

(***************************************************************************)
(* cart.js                                                                 *)
(***************************************************************************)
\* getCart: cart ? JSON.parse(cart) : []
getCart(store) == IF store.kind = "absent" THEN <<>> ELSE store.val

\* the storage value written by saveCart
saveCart(items) == Json(items)

\* `${item.id}-${item.size || "default"}-${item.color || "default"}`
cartItemId(item) ==
    ToString(item.id) \o "-" \o OrDefault(item.size) \o "-" \o OrDefault(item.color)

\* !product || !product.id
InvalidProduct(product) ==
    \/ "id" \notin DOMAIN product
    \/ product.id = 0

\* cart.findIndex(item => item.id === product.id && item.size === size &&
\* item.color === color); 0 stands for JavaScript's -1
findIndex(items, product, size, color) ==
    LET hits == { i \in 1..Len(items) :
                    /\ items[i].id = product.id
                    /\ items[i].size = size
                    /\ items[i].color = color }
    IN IF hits = {} THEN 0 ELSE CHOOSE i \in hits : \A j \in hits : i <= j

\* a line stamped with the clock value 0 whenever it is pushed
newLineUnstamped(product, quantity, size, color, now) ==
    [id |-> product.id, name |-> product.name, price |-> product.price,
     image |-> product.image, quantity |-> quantity, size |-> size,
     color |-> color, addedAt |-> 0]

\* the line pushed by addToCart
newLine(product, quantity, size, color, now) ==
    [id |-> product.id, name |-> product.name, price |-> product.price,
     image |-> product.image, quantity |-> quantity, size |-> size,
     color |-> color, addedAt |-> now]

\* addToCart without the merge: every call pushes a line
addToCartPush(items, product, quantity, size, color, now) ==
    Append(items, newLine(product, quantity, size, color, now))

\* the array addToCart saves: merge into the first matching line, or push
addToCart(items, product, quantity, size, color, now) ==
    LET idx == findIndex(items, product, size, color)
    IN IF idx > 0
       THEN [items EXCEPT ![idx].quantity = @ + quantity]
       ELSE Append(items, newLine(product, quantity, size, color, now))

\* the array removeFromCart saves: cart.filter(cartItemId !== itemId)
removeFromCart(items, itemId) ==
    SelectSeq(items, LAMBDA item : cartItemId(item) # itemId)

\* cart.find(cartItemId === itemId); 0 when there is none
findItem(items, itemId) ==
    LET hits == { i \in 1..Len(items) : cartItemId(items[i]) = itemId }
    IN IF hits = {} THEN 0 ELSE CHOOSE i \in hits : \A j \in hits : i <= j

\* the array updateCartItemQuantity saves when newQuantity >= 1 and the
\* line exists
setQuantity(items, itemId, newQuantity) ==
    [items EXCEPT ![findItem(items, itemId)].quantity = newQuantity]

RECURSIVE sumTotal(_)
\* cart.reduce((total, item) => total + item.price * item.quantity, 0)
sumTotal(items) ==
    IF items = <<>> THEN 0
    ELSE sumTotal(SubSeq(items, 1, Len(items) - 1))
         + items[Len(items)].price * items[Len(items)].quantity

\* the total of the first line alone
getCartTotalFirst(store) ==
    IF getCart(store) = <<>> THEN 0
    ELSE getCart(store)[1].price * getCart(store)[1].quantity

\* getCartTotal()
getCartTotal(store) == sumTotal(getCart(store))

RECURSIVE sumCount(_)
\* cart.reduce((count, item) => count + item.quantity, 0)
sumCount(items) ==
    IF items = <<>> THEN 0
    ELSE sumCount(SubSeq(items, 1, Len(items) - 1)) + items[Len(items)].quantity

getCartItemCount(store) == sumCount(getCart(store))

(***************************************************************************)
(* Cart operations as steps of the program.  A step that reads the clock   *)
(* finds it advanced by dt since the last read (Date.now() is the wall     *)
(* clock: two reads may return the same value).                            *)
(***************************************************************************)
\* quantities a stored line may take within the bounds of the model
LineQuantities == -1..MaxQty

\* addToCart(product, quantity, size, color)
AddToCart(product, quantity, size, color, dt) ==
    LET now == clock + dt
        saved == addToCart(getCart(cart), product, quantity, size, color, now)
    IN /\ now <= MaxClock
       /\ clock' = now
       /\ IF InvalidProduct(product)
          THEN cart' = cart
          ELSE /\ Len(saved) <= MaxLines
               /\ \A i \in 1..Len(saved) : saved[i].quantity \in LineQuantities
               /\ cart' = saveCart(saved)
       /\ UNCHANGED <<users, orders, session, buyNowItem, page>>

\* removeFromCart(itemId)
RemoveFromCart(itemId) ==
    /\ cart' = saveCart(removeFromCart(getCart(cart), itemId))
    /\ UNCHANGED <<users, orders, session, buyNowItem, page, clock>>

\* updateCartItemQuantity that ignores a quantity below 1
UpdateCartItemQuantityNoRemove(itemId, newQuantity) ==
    /\ newQuantity >= 1 => newQuantity \in LineQuantities
    /\ cart' = IF newQuantity >= 1 /\ findItem(getCart(cart), itemId) > 0
               THEN saveCart(setQuantity(getCart(cart), itemId, newQuantity))
               ELSE cart
    /\ UNCHANGED <<users, orders, session, buyNowItem, page, clock>>

\* updateCartItemQuantity(itemId, newQuantity)
UpdateCartItemQuantity(itemId, newQuantity) ==
    LET items == getCart(cart)
    IN /\ IF newQuantity < 1
          THEN cart' = saveCart(removeFromCart(items, itemId))
          ELSE /\ newQuantity \in LineQuantities
               /\ cart' = IF findItem(items, itemId) > 0
                          THEN saveCart(setQuantity(items, itemId, newQuantity))
                          ELSE cart
       /\ UNCHANGED <<users, orders, session, buyNowItem, page, clock>>

\* clearCart: localStorage.removeItem(CART_KEY)
clearCart == Absent

\* clearCart()
ClearCart ==
    /\ cart' = clearCart
    /\ UNCHANGED <<users, orders, session, buyNowItem, page, clock>>

(***************************************************************************)
(* History of the cart operations: what was called, what it returned and   *)
(* the notification it showed.                                             *)
(***************************************************************************)
InitHistory == [op |-> "init"]

\* the steps that are not followed
NoHistory == UNCHANGED <<lastOp, prevOp>>

\* does the recorded operation concern the line addToCart(product, _, size,
\* color) is about?
SameLine(op, product, size, color) ==
    \/ /\ op.op = "addToCart"
       /\ op.product = product /\ op.size = size /\ op.color = color
    \/ /\ op.op \in {"removeFromCart", "updateCartItemQuantity"}
       /\ ~InvalidProduct(product)
       /\ op.itemId = cartItemId([id |-> product.id, size |-> size, color |-> color])

RecordAddToCart(product, quantity, size, color) ==
    /\ prevOp' = IF SameLine(lastOp, product, size, color)
                 THEN lastOp ELSE [op |-> "other"]
    /\ lastOp' =
         [op |-> "addToCart", product |-> product, quantity |-> quantity,
          size |-> size, color |-> color,
          result |-> ~InvalidProduct(product),
          merged |-> /\ ~InvalidProduct(product)
                     /\ findIndex(getCart(cart), product, size, color) > 0,
          notification |-> IF InvalidProduct(product) THEN ""
                           ELSE product.name \o " added to cart!"]

RecordRemoveFromCart(itemId) ==
    /\ prevOp' = InitHistory
    /\ lastOp' = [op |-> "removeFromCart", itemId |-> itemId,
                   notification |-> "Item removed from cart"]

RecordUpdateCartItemQuantity(itemId, newQuantity) ==
    /\ prevOp' = InitHistory
    /\ lastOp' = [op |-> "updateCartItemQuantity", itemId |-> itemId,
                   newQuantity |-> newQuantity,
                   notification |-> IF newQuantity < 1
                                    THEN "Item removed from cart" ELSE ""]

RecordClearCart ==
    /\ prevOp' = InitHistory
    /\ lastOp' = [op |-> "clearCart", notification |-> ""]

(***************************************************************************)
(* The cart on its own: every cart operation, with the arguments the       *)
(* callers can pass.                                                       *)
(***************************************************************************)
\* time that passes between two steps
Ticks == {0, 1}

\* the arguments of addToCart: two catalog products, the first with three
\* choices of size and color, a product whose id is 0, and no product
AddArgs ==
    { <<Product(1, 200000), Null, Null>>,
      <<Product(1, 200000), Str("default"), Str("")>>,
      <<Product(1, 200000), Str("M"), Null>>,
      <<Product(2, 500000), Null, Null>>,
      <<Product(0, 199900), Null, Null>>,
      <<Null, Null, Null>> }

\* quantity arguments
QuantityArgs == {-1, 0, 1, 2}

\* quantities the cart page can pass to updateCartItemQuantity
NewQuantityArgs == QuantityArgs \cup {-5}

\* item ids the cart page can pass: those of the rendered lines, and one of
\* no line
ItemIdArgs ==
    { cartItemId(getCart(cart)[i]) : i \in 1..Len(getCart(cart)) } \cup {"9-default-default"}

CartInit ==
    /\ cart = Absent
    /\ users = Absent
    /\ orders = Absent
    /\ session = Absent
    /\ buyNowItem = Absent
    /\ page = [name |-> "other"]
    /\ clock = 0
    /\ lastOp = InitHistory
    /\ prevOp = InitHistory

CartNext ==
    \/ \E a \in AddArgs, quantity \in QuantityArgs, dt \in Ticks :
            /\ AddToCart(a[1], quantity, a[2], a[3], dt)
            /\ RecordAddToCart(a[1], quantity, a[2], a[3])
    \/ \E itemId \in ItemIdArgs :
            RemoveFromCart(itemId) /\ RecordRemoveFromCart(itemId)
    \/ \E itemId \in ItemIdArgs, newQuantity \in NewQuantityArgs :
            /\ UpdateCartItemQuantity(itemId, newQuantity)
            /\ RecordUpdateCartItemQuantity(itemId, newQuantity)
    \/ ClearCart /\ RecordClearCart

SpecCart == CartInit /\ [][CartNext]_vars

(***************************************************************************)
(* products.js: the buy-now item                                           *)
(***************************************************************************)
\* { ...product, quantity, size, color, isBuyNow: true }
buyNowRecord(product, quantity, size, color) ==
    [id |-> product.id, name |-> product.name, price |-> product.price,
     image |-> product.image, quantity |-> quantity, size |-> size,
     color |-> color, isBuyNow |-> TRUE]

\* buyNow(productId): store the item and leave for checkout.html?mode=buy-now
BuyNow(productId) ==
    LET product == getProductById(productId)
    IN /\ buyNowItem' = IF product = Null THEN buyNowItem
                        ELSE Json(buyNowRecord(product, 1, Null, Null))
       /\ page' = IF product = Null THEN page ELSE [name |-> "other"]
       /\ UNCHANGED <<cart, users, orders, session, clock>>

\* buyNowFromModal(productId), with the modal's quantity, size and color
BuyNowFromModal(productId, quantity, size, color) ==
    LET product == getProductById(productId)
    IN /\ buyNowItem' = IF product = Null THEN buyNowItem
                        ELSE Json(buyNowRecord(product, quantity, size, color))
       /\ page' = IF product = Null THEN page ELSE [name |-> "other"]
       /\ UNCHANGED <<cart, users, orders, session, clock>>

(***************************************************************************)
(* checkout.js                                                             *)
(***************************************************************************)
\* a JavaScript number, in units of 1/10000
Num(n) == [t |-> "number", n |-> n]
\* the number NaN
NaN == [t |-> "NaN"]
\* {}
EmptyObject == [f \in {} |-> 0]

\* a + b
plus(a, b) == IF a.t = "number" /\ b.t = "number" THEN Num(a.n + b.n) ELSE NaN

\* a line counted once, whatever its quantity
lineAmountUnit(item) ==
    IF "price" \in DOMAIN item THEN Num(item.price) ELSE NaN

\* item.price * item.quantity; a missing property is undefined and the
\* product NaN
lineAmount(item) ==
    IF {"price", "quantity"} \subseteq DOMAIN item
    THEN Num(item.price * item.quantity)
    ELSE NaN

RECURSIVE reduceSubtotal(_)
\* order.items.reduce((sum, item) => sum + item.price * item.quantity, 0)
reduceSubtotal(items) ==
    IF items = <<>> THEN Num(0)
    ELSE plus(reduceSubtotal(SubSeq(items, 1, Len(items) - 1)),
              lineAmount(items[Len(items)]))

\* order.shipping = 9.99
Shipping == 99900

\* the tax rounded to whole cents when it is stored
taxOfRounded(subtotal) ==
    IF subtotal.t = "number"
    THEN Num(((subtotal.n * 8 + 5000) \div 10000) * 100)
    ELSE NaN

\* subtotal * 0.08, exact on amounts of whole cents
taxOf(subtotal) ==
    IF subtotal.t = "number" THEN Num((subtotal.n * 8) \div 100) ELSE NaN

\* JSON.stringify of a number: NaN is written as null
stringifyNumber(x) == IF x.t = "NaN" THEN Null ELSE x

\* the digits of Number.prototype.toString(36), upper-cased
Digits36 ==
    << "0", "1", "2", "3", "4", "5", "6", "7", "8", "9", "A", "B", "C", "D",
       "E", "F", "G", "H", "I", "J", "K", "L", "M", "N", "O", "P", "Q", "R",
       "S", "T", "U", "V", "W", "X", "Y", "Z" >>

RECURSIVE toString36(_)
\* n.toString(36).toUpperCase()
toString36(n) ==
    IF n < Len(Digits36) THEN Digits36[n + 1]
    ELSE toString36(n \div Len(Digits36)) \o Digits36[(n % Len(Digits36)) + 1]

\* generateOrderId: "ORD-" + Date.now().toString(36).toUpperCase()
generateOrderId(now) == "ORD-" \o toString36(now)

\* isLoggedIn: getSession() !== null
isLoggedIn == session.kind # "absent"

\* JSON.parse(sessionStorage.getItem("buy-now-item") || fallback)
parseBuyNowItem(fallback) ==
    IF buyNowItem.kind = "absent" THEN fallback ELSE buyNowItem.val

\* mode === "buy-now"
IsBuyNow(mode) == mode = Str("buy-now")

\* the order object processOrder builds; the clock is read twice: idNow by
\* Date.now() in generateOrderId, dateNow by new Date() for the date
buildOrder(orderData, mode, idNow, dateNow) ==
    LET items == IF IsBuyNow(mode) THEN <<parseBuyNowItem(EmptyObject)>>
                 ELSE getCart(cart)
        subtotal == reduceSubtotal(items)
        shipping == Num(Shipping)
        tax == taxOf(subtotal)
        total == plus(plus(subtotal, shipping), tax)
    IN [id |-> generateOrderId(idNow), date |-> dateNow, customer |-> orderData,
        items |-> items, mode |-> IF Truthy(mode) THEN mode.s ELSE "cart",
        status |-> "confirmed", subtotal |-> subtotal, shipping |-> shipping,
        tax |-> tax, total |-> total]

\* JSON.stringify of an order, as JSON.parse reads it back
stringifyOrder(order) ==
    [order EXCEPT !.subtotal = stringifyNumber(@), !.shipping = stringifyNumber(@),
                  !.tax = stringifyNumber(@), !.total = stringifyNumber(@)]

\* JSON.parse(localStorage.getItem("fashion-store-orders") || "[]")
getOrders(store) == IF store.kind = "absent" THEN <<>> ELSE store.val

\* the log overwritten by the order placed last
saveOrderOnly(store, order) == Json(<<stringifyOrder(order)>>)

\* saveOrder: read the log, push, write it back
saveOrder(store, order) == Json(Append(getOrders(store), stringifyOrder(order)))

\* the cart cleared after every order
clearsCartAlways(mode) == TRUE

\* if (mode !== "buy-now") clearCart()
clearsCart(mode) == ~IsBuyNow(mode)

\* the buy-now item removed after a buy-now order only
removeBuyNowItemInBuyNowMode(mode) == IF IsBuyNow(mode) THEN Absent ELSE buyNowItem

\* sessionStorage.removeItem("buy-now-item"), whatever the mode
removeBuyNowItem(mode) == Absent

\* history kept with the document: no order placed yet
NothingPlaced == [mode |-> "none"]

\* characters matched by \s
Whitespace == {" "}

\* isValidEmail: /^[^\s@]+@[^\s@]+\.[^\s@]+$/ on a sequence of characters
isValidEmail(email) ==
    \E i, j \in 1..Len(email) :
        /\ 1 < i /\ i + 1 < j /\ j < Len(email)
        /\ email[i] = "@"
        /\ email[j] = "."
        /\ \A k \in 1..Len(email) :
              k # i => email[k] \notin (Whitespace \cup {"@"})

\* the validation without the check of the card number
validateCheckoutFormNoCard(data) ==
    /\ ~(data.email = <<>> \/ ~isValidEmail(data.email))
    /\ ~(data.shipping.firstName = "" \/ data.shipping.lastName = "")
    /\ ~(data.shipping.address = "" \/ data.shipping.city = "" \/ data.shipping.zip = "")
    /\ ~(data.shipping.phone = "")
    /\ ~(data.payment.cardName = "")
    /\ ~(data.payment.expiry = "" \/ data.payment.cvv = "")

\* validateCheckoutForm: TRUE when no error is collected
validateCheckoutForm(data) ==
    /\ ~(data.email = <<>> \/ ~isValidEmail(data.email))
    /\ ~(data.shipping.firstName = "" \/ data.shipping.lastName = "")
    /\ ~(data.shipping.address = "" \/ data.shipping.city = "" \/ data.shipping.zip = "")
    /\ ~(data.shipping.phone = "")
    /\ ~(data.payment.cardNumber = "" \/ Len(data.payment.cardNumber) < 16)
    /\ ~(data.payment.cardName = "")
    /\ ~(data.payment.expiry = "" \/ data.payment.cvv = "")

\* initCheckout, run when checkout.html loads with the URL parameter mode.
\* A render function that finds nothing to show assigns location.href and
\* returns; initCheckout still registers the submit handler, and the
\* document stays until the navigation takes place (Unload).
InitCheckout(mode) ==
    /\ page' = IF ~isLoggedIn THEN [name |-> "other"]
               ELSE [name |-> "checkout", mode |-> mode,
                     redirecting |->
                        IF IsBuyNow(mode) THEN parseBuyNowItem(Null) = Null
                        ELSE Len(getCart(cart)) = 0,
                     placed |-> NothingPlaced]
    /\ UNCHANGED <<cart, users, orders, session, buyNowItem, clock>>

\* the checkout document is left: a pending redirect takes place, or the
\* user navigates away
Unload ==
    /\ page.name # "other"
    /\ page' = [name |-> "other"]
    /\ UNCHANGED <<cart, users, orders, session, buyNowItem, clock>>

\* handleCheckoutSubmit on the checkout form: validate, then processOrder.
\* showOrderSuccess replaces the content of .checkout-container, the form
\* included, when the document has that element.  page.placed is history:
\* the order object given to showOrderSuccess and the storage it was built
\* from.
HandleCheckoutSubmit(orderData, container, dtId, dtDate) ==
    LET idNow == clock + dtId
        now == idNow + dtDate
        order == buildOrder(orderData, page.mode, idNow, now)
        placed == [mode |-> order.mode, order |-> order, cartBefore |-> cart,
                   buyNowBefore |-> buyNowItem]
    IN /\ page.name = "checkout"
       /\ IF ~validateCheckoutForm(orderData)
          THEN UNCHANGED <<cart, orders, buyNowItem, page, clock>>
          ELSE /\ now <= MaxClock
               /\ Len(getOrders(orders)) < MaxOrders
               /\ clock' = now
               /\ orders' = saveOrder(orders, order)
               /\ cart' = IF clearsCart(page.mode) THEN clearCart ELSE cart
               /\ buyNowItem' = removeBuyNowItem(page.mode)
               /\ page' = IF container
                          THEN [name |-> "success", placed |-> placed]
                          ELSE [page EXCEPT !.placed = placed]
       /\ UNCHANGED <<users, session>>

(***************************************************************************)
(* auth.js.  The text of a form field is a sequence of characters.         *)
(***************************************************************************)
\* the characters of the fields: [a-z], [A-Z] and \d as far as the inputs
\* use them; every other character but "_" is matched by \W
LowerCase == {"a", "b", "c", "d", "e", "f"}

UpperCase == {"A", "B", "C", "D", "E", "F"}

DigitChars == {"1", "2"}

\* toLowerCase on one character
lowerChar(c) ==
    CASE c = "A" -> "a" [] c = "B" -> "b" [] c = "C" -> "c"
      [] c = "D" -> "d" [] c = "E" -> "e" [] c = "F" -> "f"
      [] OTHER -> c

\* the text left in the case it was typed in
toLowerCaseNone(s) == s

\* String.prototype.toLowerCase
toLowerCase(s) == [i \in 1..Len(s) |-> lowerChar(s[i])]

RECURSIVE trimStart(_)
trimStart(s) ==
    IF s # <<>> /\ Head(s) \in Whitespace THEN trimStart(Tail(s)) ELSE s

RECURSIVE trimEnd(_)
trimEnd(s) ==
    IF s # <<>> /\ s[Len(s)] \in Whitespace
    THEN trimEnd(SubSeq(s, 1, Len(s) - 1)) ELSE s

\* String.prototype.trim
trim(s) == trimEnd(trimStart(s))

\* the {8,} of passwordRegex
MinPasswordLength == 8

\* the policy without the (?=.*\d) of passwordRegex
passwordRegexTestNoDigit(password) ==
    /\ \E i \in 1..Len(password) : password[i] \in LowerCase
    /\ \E i \in 1..Len(password) : password[i] \in UpperCase
    /\ \E i \in 1..Len(password) :
          password[i] \notin (LowerCase \cup UpperCase \cup DigitChars)
    /\ Len(password) >= MinPasswordLength

\* passwordRegex.test(password):
\* /^(?=.*[a-z])(?=.*[A-Z])(?=.*\d)(?=.*[\W_]).{8,}$/ on a single line
passwordRegexTest(password) ==
    /\ \E i \in 1..Len(password) : password[i] \in LowerCase
    /\ \E i \in 1..Len(password) : password[i] \in UpperCase
    /\ \E i \in 1..Len(password) : password[i] \in DigitChars
    /\ \E i \in 1..Len(password) :
          password[i] \notin (LowerCase \cup UpperCase \cup DigitChars)
    /\ Len(password) >= MinPasswordLength

\* getUsers: users ? JSON.parse(users) : []
getUsers(store) == IF store.kind = "absent" THEN <<>> ELSE store.val

\* the storage value written by saveUsers
saveUsers(list) == Json(list)

\* getSession: session ? JSON.parse(session) : null
getSession(store) == IF store.kind = "absent" THEN Null ELSE store.val

\* the session left as it is
saveSessionKeep(s) == session

\* the storage value written by saveSession
saveSession(s) == Json(s)

\* the session kept at logout
clearSessionKeep == session

\* clearSession: sessionStorage.removeItem(SESSION_KEY)
clearSession == Absent

\* users.some(user => user.email === email)
emailExists(list, email) == \E i \in 1..Len(list) : list[i].email = email

\* the message handleRegister shows for the trimmed name, the trimmed and
\* lower-cased email and the passwords; "" when it shows none
registerError(name, email, password, confirmPassword, list) ==
    IF name = <<>> \/ email = <<>> \/ password = <<>> \/ confirmPassword = <<>>
    THEN "Please fill in all fields"
    ELSE IF password # confirmPassword
    THEN "Passwords do not match"
    ELSE IF ~passwordRegexTest(password)
    THEN "Password must be at least 8 characters long and include an uppercase letter, a lowercase letter, a number, and a special character."
    ELSE IF emailExists(list, email)
    THEN "Email already registered"
    ELSE ""

\* the user handleRegister creates; the clock is read twice: idNow by
\* Date.now() for the id, createdNow by new Date() for createdAt
newUser(name, email, password, idNow, createdNow) ==
    [id |-> ToString(idNow), name |-> name, email |-> email,
     password |-> password, createdAt |-> createdNow]

\* the session handleRegister and handleLogin create
newSession(user, now) ==
    [email |-> user.email, name |-> user.name, loginTime |-> now]

\* handleRegister, with the values of the four fields; the clock is read
\* for the user's id, for createdAt and for the session's loginTime
HandleRegister(nameInput, emailInput, password, confirmPassword, dtId, dtCreated, dtLogin) ==
    LET name == trim(nameInput)
        email == toLowerCase(trim(emailInput))
        list == getUsers(users)
        idNow == clock + dtId
        createdNow == idNow + dtCreated
        now == createdNow + dtLogin
        user == newUser(name, email, password, idNow, createdNow)
    IN /\ IF registerError(name, email, password, confirmPassword, list) # ""
          THEN UNCHANGED <<users, session, page, clock>>
          ELSE /\ now <= MaxClock
               /\ Len(list) < MaxUsers
               /\ clock' = now
               /\ users' = saveUsers(Append(list, user))
               /\ session' = saveSession(newSession(user, now))
               /\ page' = [name |-> "other"]
       /\ UNCHANGED <<cart, orders, buyNowItem>>

\* users.find(u => u.email === email); 0 when there is none
findUser(list, email) ==
    LET hits == { i \in 1..Len(list) : list[i].email = email }
    IN IF hits = {} THEN 0 ELSE CHOOSE i \in hits : \A j \in hits : i <= j

\* the login that looks at the email only
loginErrorEmailOnly(email, password, list) ==
    IF email = <<>> \/ password = <<>>
    THEN "Please enter email and password"
    ELSE IF findUser(list, email) = 0
    THEN "Invalid email or password"
    ELSE ""

\* the message handleLogin shows for the trimmed and lower-cased email and
\* the password; "" when it shows none
loginError(email, password, list) ==
    IF email = <<>> \/ password = <<>>
    THEN "Please enter email and password"
    ELSE IF findUser(list, email) = 0
            \/ list[findUser(list, email)].password # password
    THEN "Invalid email or password"
    ELSE ""

\* handleLogin, with the values of the two fields
HandleLogin(emailInput, password, dt) ==
    LET email == toLowerCase(trim(emailInput))
        list == getUsers(users)
        now == clock + dt
    IN /\ IF loginError(email, password, list) # ""
          THEN UNCHANGED <<session, page, clock>>
          ELSE /\ now <= MaxClock
               /\ clock' = now
               /\ session' = saveSession(newSession(list[findUser(list, email)], now))
               /\ page' = [name |-> "other"]
       /\ UNCHANGED <<cart, users, orders, buyNowItem>>

\* handleLogout
HandleLogout ==
    /\ session' = clearSession
    /\ page' = [name |-> "other"]
    /\ UNCHANGED <<cart, users, orders, buyNowItem, clock>>

\* history of the forms: the values submitted and the message shown
RecordRegister(nameInput, emailInput, password, confirmPassword) ==
    /\ prevOp' = InitHistory
    /\ lastOp' =
         [op |-> "register", name |-> nameInput, email |-> emailInput,
          password |-> password, confirmPassword |-> confirmPassword,
          sessionBefore |-> session,
          error |-> registerError(trim(nameInput), toLowerCase(trim(emailInput)),
                                  password, confirmPassword, getUsers(users))]

RecordLogin(emailInput, password) ==
    /\ prevOp' = InitHistory
    /\ lastOp' =
         [op |-> "login", email |-> emailInput, password |-> password,
          error |-> loginError(toLowerCase(trim(emailInput)), password,
                               getUsers(users))]

RecordLogout ==
    /\ prevOp' = InitHistory
    /\ lastOp' = [op |-> "logout"]

(***************************************************************************)
(* The login and register pages on their own.                              *)
(***************************************************************************)
\* emails typed: the same address in three spellings, another address, and
\* none
EmailArgs == { <<"a">>, <<"A">>, <<" ", "A", " ">>, <<"b">>, <<>> }

\* passwords typed: two that pass the policy, one that passes with a space
\* as its special character, and one for each way to fail it
PasswordArgs ==
    { <<"A", "b", "c", "d", "e", "f", "1", "!">>,
      <<"A", "b", "c", "d", "e", "f", "2", "_">>,
      <<"A", "b", "c", "d", "e", "f", "1", " ">>,
      <<"A", "b", "c", "d", "e", "1", "!">>,
      <<"a", "b", "c", "d", "e", "f", "1", "!">>,
      <<"A", "B", "C", "D", "E", "F", "1", "!">>,
      <<"A", "b", "c", "d", "e", "f", "!", "!">>,
      <<"A", "b", "c", "d", "e", "f", "1", "2">>,
      <<>> }

\* the register form as submitted: every email with every password typed
\* twice under a name, and one form each with a name of spaces, with another
\* confirmation and with no confirmation
RegisterArgs ==
    { <<<<"A">>, e, p, p>> : e \in EmailArgs, p \in PasswordArgs }
    \cup { << <<" ">>, <<"a">>, <<"A", "b", "c", "d", "e", "f", "1", "!">>,
              <<"A", "b", "c", "d", "e", "f", "1", "!">> >>,
           << <<"A">>, <<"b">>, <<"A", "b", "c", "d", "e", "f", "1", "!">>,
              <<"A", "b", "c", "d", "e", "f", "2", "_">> >>,
           << <<"A">>, <<"b">>, <<"A", "b", "c", "d", "e", "f", "1", "!">>, <<>> >> }

\* the passwords typed into the login form
LoginPasswordArgs ==
    { <<"A", "b", "c", "d", "e", "f", "1", "!">>,
      <<"A", "b", "c", "d", "e", "f", "2", "_">>,
      <<>> }

\* the time that passes before each of the three clock reads of
\* handleRegister, within the bound of the clock
RegisterTicks ==
    { dt \in Ticks \X Ticks \X Ticks : dt[1] + dt[2] + dt[3] <= MaxClock }

AuthInit ==
    /\ cart = Absent
    /\ users = Absent
    /\ orders = Absent
    /\ session = Absent
    /\ buyNowItem = Absent
    /\ page = [name |-> "other"]
    /\ clock = 0
    /\ lastOp = InitHistory
    /\ prevOp = InitHistory

AuthNext ==
    \/ \E a \in RegisterArgs, dt \in RegisterTicks :
            /\ HandleRegister(a[1], a[2], a[3], a[4], dt[1], dt[2], dt[3])
            /\ RecordRegister(a[1], a[2], a[3], a[4])
    \/ \E emailInput \in EmailArgs, password \in LoginPasswordArgs, dt \in Ticks :
            HandleLogin(emailInput, password, dt) /\ RecordLogin(emailInput, password)
    \/ HandleLogout /\ RecordLogout

SpecAuth == AuthInit /\ [][AuthNext]_vars

(***************************************************************************)
(* The storefront: a logged-in or logged-out tab that shops, buys now and  *)
(* checks out, while the cart in localStorage is also changed from the     *)
(* cart page of this or another tab.                                       *)
(***************************************************************************)
ValidForm ==
    [email |-> <<"a", "@", "b", ".", "c">>,
     shipping |-> [firstName |-> "A", lastName |-> "B", address |-> "1 St",
                   city |-> "C", state |-> "", zip |-> "1", country |-> "",
                   phone |-> "5"],
     payment |-> [cardNumber |-> "4111111111111111", cardName |-> "A B",
                  expiry |-> "12/30", cvv |-> "123"]]

\* the form data submitted: complete, without an email, with a short card
\* number
FormArgs ==
    { ValidForm,
      [ValidForm EXCEPT !.email = <<"a", "b">>],
      [ValidForm EXCEPT !.payment.cardNumber = "4111"] }

\* the URL parameter mode: absent or "buy-now"
ModeArgs == {Null, Str("buy-now")}

\* products added to the cart while checking out
ShopAddArgs == { <<Product(1, 200000), 2>>, <<Product(3, 199900), 1>> }

\* product ids of the buy-now buttons, and one of no product
BuyNowArgs == {2, 9}

\* a registered user (auth.js handleRegister) and a session of that user
\* (auth.js saveSession)
SomeUser == newUser(<<"A">>, <<"a">>, <<"A", "b", "c", "d", "e", "f", "1", "!">>, 0, 0)

SomeSession == newSession(SomeUser, 0)

Init ==
    /\ cart = Absent
    /\ users = saveUsers(<<SomeUser>>)
    /\ orders = Absent
    /\ session \in {Absent, Json(SomeSession)}
    /\ buyNowItem = Absent
    /\ page = [name |-> "other"]
    /\ clock = 0
    /\ lastOp = InitHistory
    /\ prevOp = InitHistory

Next ==
    \/ \E a \in ShopAddArgs : AddToCart(a[1], a[2], Null, Null, 0) /\ NoHistory
    \/ \E itemId \in ItemIdArgs : RemoveFromCart(itemId) /\ NoHistory
    \/ ClearCart /\ NoHistory
    \/ \E productId \in BuyNowArgs : BuyNow(productId) /\ NoHistory
    \/ BuyNowFromModal(2, 2, Str("M"), Null) /\ NoHistory
    \/ \E mode \in ModeArgs : InitCheckout(mode) /\ NoHistory
    \/ Unload /\ NoHistory
    \/ \E orderData \in FormArgs, container \in BOOLEAN, dtId, dtDate \in Ticks :
          HandleCheckoutSubmit(orderData, container, dtId, dtDate) /\ NoHistory

Spec == Init /\ [][Next]_vars

(***************************************************************************)
(* Storage that holds text JSON.parse cannot read.  None of the readers    *)
(* wraps JSON.parse in a try: the SyntaxError leaves the function, and the *)
(* statements after the read are not run.                                  *)
(***************************************************************************)
\* a key whose text is not JSON
Corrupt == [kind |-> "corrupt"]

\* value ? JSON.parse(value) : fallback, and JSON.parse(value || fallback):
\* the text is parsed when it is there
parseThrows(store) == store = Corrupt

\* what a call did: returned, or threw
Outcome(name, threw) ==
    /\ lastOp' = [op |-> name, threw |-> threw]
    /\ UNCHANGED prevOp

\* getCart()
GetCart ==
    /\ Outcome("getCart", parseThrows(cart))
    /\ UNCHANGED <<cart, users, orders, session, buyNowItem, page, clock>>

\* getUsers()
GetUsers ==
    /\ Outcome("getUsers", parseThrows(users))
    /\ UNCHANGED <<cart, users, orders, session, buyNowItem, page, clock>>

\* getSession()
GetSession ==
    /\ Outcome("getSession", parseThrows(session))
    /\ UNCHANGED <<cart, users, orders, session, buyNowItem, page, clock>>

\* addToCart on the stored text: getCart() is its first read
AddToCartStored(product, quantity, size, color) ==
    /\ Outcome("addToCart", ~InvalidProduct(product) /\ parseThrows(cart))
    /\ IF parseThrows(cart)
       THEN UNCHANGED <<cart, users, orders, session, buyNowItem, page, clock>>
       ELSE AddToCart(product, quantity, size, color, 0)

\* the reads of initCheckout: isLoggedIn(), then the buy-now item or the
\* cart of the renderer
initCheckoutThrows(mode) ==
    \/ parseThrows(session)
    \/ /\ session # Absent
       /\ IF IsBuyNow(mode) THEN parseThrows(buyNowItem) ELSE parseThrows(cart)

\* the checkout document whose initCheckout threw: setupCheckoutForm was
\* not reached, and the form has no submit handler
NoSubmitHandler(mode) == [name |-> "checkout-unset", mode |-> mode]

\* initCheckout on the stored text, run when checkout.html loads
InitCheckoutStored(mode) ==
    /\ Outcome("initCheckout", initCheckoutThrows(mode))
    /\ IF initCheckoutThrows(mode)
       THEN /\ page' = NoSubmitHandler(mode)
            /\ UNCHANGED <<cart, users, orders, session, buyNowItem, clock>>
       ELSE InitCheckout(mode)

\* the reads of processOrder: the buy-now item or the cart, then the order
\* log in saveOrder
processOrderThrows(mode) ==
    \/ IF IsBuyNow(mode) THEN parseThrows(buyNowItem) ELSE parseThrows(cart)
    \/ parseThrows(orders)

\* handleCheckoutSubmit on the stored text, with a valid form
HandleCheckoutSubmitStored(orderData, container) ==
    /\ page.name = "checkout"
    /\ Outcome("processOrder", processOrderThrows(page.mode))
    /\ IF processOrderThrows(page.mode)
       THEN UNCHANGED <<cart, users, orders, session, buyNowItem, page, clock>>
       ELSE HandleCheckoutSubmit(orderData, container, 0, 0)

\* what each key may hold when the pages load: nothing, text that is not
\* JSON, or a value the program wrote
StorageInit ==
    /\ cart \in {Absent, Corrupt,
                 saveCart(<<newLine(Product(1, 200000), 1, Null, Null, 0)>>)}
    /\ users \in {Absent, Corrupt, saveUsers(<<SomeUser>>)}
    /\ orders \in {Absent, Corrupt}
    /\ session \in {Absent, Corrupt, saveSession(SomeSession)}
    /\ buyNowItem \in {Absent, Corrupt,
                       Json(buyNowRecord(Product(2, 500000), 1, Null, Null))}
    /\ page = [name |-> "other"]
    /\ clock = 0
    /\ lastOp = InitHistory
    /\ prevOp = InitHistory

StorageNext ==
    \/ GetCart
    \/ GetUsers
    \/ GetSession
    \/ AddToCartStored(Product(1, 200000), 1, Null, Null)
    \/ \E mode \in ModeArgs : InitCheckoutStored(mode)
    \/ \E container \in BOOLEAN : HandleCheckoutSubmitStored(ValidForm, container)

SpecStorage == StorageInit /\ [][StorageNext]_vars

(***************************************************************************)
(* The checkout page followed from its load to the submission of its form, *)
(* while the cart is changed from another tab.  The history keeps what     *)
(* renderCartCheckout showed and what was submitted.                       *)
(***************************************************************************)
\* Number.prototype.toFixed(2): the amount rounded to whole cents.  The
\* totals of carts priced in whole cents never lie halfway between two cents
toFixed2(x) ==
    IF x.t # "number" THEN x
    ELSE IF x.n >= 0 THEN Num(((x.n + 50) \div 100) * 100)
    ELSE Num(-(((50 - x.n) \div 100) * 100))

\* the total renderCartCheckout puts on the page: `$${total.toFixed(2)}`
renderedTotal(store) ==
    toFixed2(plus(plus(Num(getCartTotal(store)), Num(Shipping)),
                  taxOf(Num(getCartTotal(store)))))

RecordInitCheckout(mode) ==
    /\ prevOp' = InitHistory
    /\ lastOp' = [op |-> "initCheckout", mode |-> mode,
                   rendered |-> isLoggedIn /\ ~IsBuyNow(mode) /\ Len(getCart(cart)) > 0,
                   items |-> getCart(cart),
                   total |-> renderedTotal(cart)]

\* a step that is not followed further; what the page showed is kept
RecordOther ==
    /\ prevOp' = IF lastOp.op = "initCheckout" THEN lastOp ELSE prevOp
    /\ lastOp' = [op |-> "other"]

RecordSubmit(orderData) ==
    /\ prevOp' = IF lastOp.op = "initCheckout" THEN lastOp ELSE prevOp
    /\ lastOp' = [op |-> "submit", form |-> orderData,
                   accepted |-> validateCheckoutForm(orderData)]

\* the forms submitted: the complete one, and one for each way to fail the
\* validation
FieldArgs ==
    { ValidForm,
      [ValidForm EXCEPT !.email = <<>>],
      [ValidForm EXCEPT !.email = <<"a", "b">>],
      [ValidForm EXCEPT !.email = <<"a", "@", "b">>],
      [ValidForm EXCEPT !.email = <<"a", " ", "@", "b", ".", "c">>],
      [ValidForm EXCEPT !.shipping.firstName = ""],
      [ValidForm EXCEPT !.shipping.lastName = ""],
      [ValidForm EXCEPT !.shipping.address = ""],
      [ValidForm EXCEPT !.shipping.city = ""],
      [ValidForm EXCEPT !.shipping.zip = ""],
      [ValidForm EXCEPT !.shipping.phone = ""],
      [ValidForm EXCEPT !.payment.cardNumber = ""],
      [ValidForm EXCEPT !.payment.cardNumber = "411111111111111"],
      [ValidForm EXCEPT !.payment.cardName = ""],
      [ValidForm EXCEPT !.payment.expiry = ""],
      [ValidForm EXCEPT !.payment.cvv = ""] }

FormInit ==
    /\ cart = Absent
    /\ users = saveUsers(<<SomeUser>>)
    /\ orders = Absent
    /\ session = saveSession(SomeSession)
    /\ buyNowItem = Absent
    /\ page = [name |-> "other"]
    /\ clock = 0
    /\ lastOp = InitHistory
    /\ prevOp = InitHistory

FormNext ==
    \/ \E a \in ShopAddArgs : AddToCart(a[1], a[2], Null, Null, 0) /\ RecordOther
    \/ \E itemId \in ItemIdArgs : RemoveFromCart(itemId) /\ RecordOther
    \/ BuyNow(2) /\ RecordOther
    \/ \E mode \in ModeArgs : InitCheckout(mode) /\ RecordInitCheckout(mode)
    \/ Unload /\ RecordOther
    \/ \E orderData \in FieldArgs :
          /\ Len(getOrders(orders)) < MaxFollowed
          /\ HandleCheckoutSubmit(orderData, TRUE, 0, 0)
          /\ RecordSubmit(orderData)

SpecForm == FormInit /\ [][FormNext]_vars

(***************************************************************************)
(* The login and register pages and the checkout gate, with the user list  *)
(* in localStorage also edited from outside the pages.                     *)
(***************************************************************************)
\* getCurrentUser: the first user with the session's email, or null
getCurrentUser(sessionStore, usersStore) ==
    IF getSession(sessionStore) = Null THEN Null
    ELSE IF findUser(getUsers(usersStore), getSession(sessionStore).email) = 0
         THEN Null
         ELSE getUsers(usersStore)[findUser(getUsers(usersStore),
                                            getSession(sessionStore).email)]

\* a user is taken out of the stored list by something other than the pages
UserDeleted(i) ==
    /\ users' = saveUsers(SubSeq(getUsers(users), 1, i - 1)
                          \o SubSeq(getUsers(users), i + 1, Len(getUsers(users))))
    /\ prevOp' = InitHistory
    /\ lastOp' = [op |-> "userDeleted"]
    /\ UNCHANGED <<cart, orders, session, buyNowItem, page, clock>>

StaleNext ==
    \/ AuthNext
    \/ \E i \in 1..Len(getUsers(users)) : UserDeleted(i)
    \/ InitCheckout(Null) /\ RecordInitCheckout(Null)

SpecStale == AuthInit /\ [][StaleNext]_vars

(***************************************************************************)
(* products.js: the catalog caches, the category filter and the search.    *)
(* The module-level variables productsCache, featuredProductsCache and     *)
(* activeCategory live with the document and are fields of page, next to   *)
(* the calls of getAllProducts whose fetch is in flight.  An async         *)
(* function runs to its await in one step; the rest of it runs when the    *)
(* fetch it waits for has ended.                                           *)
(***************************************************************************)
MaxFetches == 3
MaxPending == 2

\* a JavaScript array
Arr(a) == [t |-> "array", a |-> a]

\* a product of data/products.json
ShopProduct(i, name, description, category, featured, onSale) ==
    [id |-> i, name |-> name, description |-> description,
     category |-> category, featured |-> featured, onSale |-> onSale]

\* the category names of the filter buttons
CategoryAll == <<"a", "l", "l">>
CategoryMen == <<"m", "e", "n">>
CategoryWomen == <<"w", "o", "m", "e", "n">>
CategorySale == <<"s", "a", "l", "e">>

\* data.products of a products.json with products
SourceProducts ==
    << ShopProduct(1, <<"A", "b">>, <<"c">>, CategoryMen, TRUE, FALSE),
       ShopProduct(2, <<"b">>, <<"d", "e">>, CategoryWomen, FALSE, TRUE),
       ShopProduct(3, <<"C">>, <<"a">>, CategoryMen, TRUE, TRUE) >>

\* data.products || [] for the products.json the server holds
SourceArgs == { <<>>, SourceProducts }

\* String.prototype.includes
includes(s, t) ==
    \E i \in 0..(Len(s) - Len(t)) : SubSeq(s, i + 1, i + Len(t)) = t

\* products.filter((p) => p.featured)
filterFeatured(products) == SelectSeq(products, LAMBDA p : p.featured)

\* getProductsByCategory after its await, on the list getAllProducts gave
getProductsByCategory(products, category) ==
    IF category = Str(CategorySale)
    THEN SelectSeq(products, LAMBDA p : p.onSale = TRUE)
    ELSE SelectSeq(products, LAMBDA p : Str(p.category) = category)

\* the filter of the search-input listener
searchFilter(products, activeCategory, searchTerm) ==
    SelectSeq(products, LAMBDA p :
        LET matchedCategory == IF activeCategory = Str(CategoryAll) THEN TRUE
                               ELSE Str(p.category) = activeCategory
        IN /\ matchedCategory
           /\ \/ includes(toLowerCase(p.name), searchTerm)
              \/ includes(toLowerCase(p.description), searchTerm)
              \/ includes(toLowerCase(p.category), searchTerm))

\* renderProductGrid: the products shown; by, term, category and from are
\* history: the function that rendered, its arguments, and the list
\* getAllProducts returned to it
Grid(by, term, category, from, products) ==
    [by |-> by, term |-> term, category |-> category, from |-> from,
     products |-> products]

NoGrid == Grid("none", <<>>, Null, <<>>, <<>>)

\* the document after products.js was loaded, before DOMContentLoaded;
\* started: initProducts was called; filters: initCategoryFilters has put
\* the click listeners on the category buttons
ShopPage(source) ==
    [name |-> "shop", source |-> source, started |-> FALSE,
     filters |-> FALSE,
     productsCache |-> Null, featuredProductsCache |-> Null,
     activeCategory |-> Null, pending |-> <<>>, fetches |-> 0,
     failed |-> 0, grid |-> NoGrid]

\* a call of getAllProducts: the function that awaits it and its argument
Call(caller, arg) == [caller |-> caller, arg |-> arg]

\* the caller's statements after `await getAllProducts()` returned products
Continue(call, products, pg) ==
    CASE call.caller = "getAllProducts" -> pg
      [] call.caller = "getFeaturedProducts" ->
            [pg EXCEPT !.featuredProductsCache = Arr(filterFeatured(products))]
      [] call.caller = "search" ->
            [pg EXCEPT !.grid =
                Grid("search", call.arg, pg.activeCategory, products,
                     searchFilter(products, pg.activeCategory, call.arg))]
      [] call.caller = "category" ->
            [pg EXCEPT !.grid =
                Grid("category", <<>>, call.arg, products,
                     IF call.arg = Str(CategoryAll) THEN products
                     ELSE getProductsByCategory(products, call.arg))]
      [] call.caller = "initProducts" ->
            [pg EXCEPT !.grid =
                        Grid("initProducts", <<>>, call.arg, products,
                             IF call.arg # Null
                             THEN getProductsByCategory(products, call.arg)
                             ELSE products),
                       !.activeCategory = IF @ = Null THEN Str(CategoryAll)
                                          ELSE @,
                       !.filters = TRUE]

\* getAllProducts, called by call.caller on the document pg: the cached list
\* when there is one, else a fetch that is awaited
GetAllProducts(call, pg) ==
    /\ IF pg.productsCache # Null
       THEN page' = Continue(call, pg.productsCache.a, pg)
       ELSE /\ pg.fetches < MaxFetches
            /\ Len(pg.pending) < MaxPending
            /\ page' = [pg EXCEPT !.pending = Append(@, call),
                                  !.fetches = @ + 1]
    /\ UNCHANGED <<cart, users, orders, session, buyNowItem, clock>>

\* the fetch of the i-th call in flight ends: with the products when ok,
\* else in the catch block, which returns [] and caches nothing
FetchDone(i, ok) ==
    /\ page.name = "shop"
    /\ i \in 1..Len(page.pending)
    /\ LET call == page.pending[i]
           rest == SubSeq(page.pending, 1, i - 1)
                       \o SubSeq(page.pending, i + 1, Len(page.pending))
           products == IF ok THEN page.source ELSE <<>>
           pg == [page EXCEPT !.pending = rest,
                              !.productsCache = IF ok THEN Arr(page.source)
                                                ELSE @,
                              !.failed = IF ok THEN @ ELSE @ + 1]
       IN page' = Continue(call, products, pg)
    /\ UNCHANGED <<cart, users, orders, session, buyNowItem, clock>>

\* initProducts on the shop page opened with ?category=urlCategory (null
\* without the parameter), followed by initCategoryFilters
InitProducts(urlCategory) ==
    /\ page.name = "shop"
    /\ ~page.started
    /\ GetAllProducts(Call("initProducts", urlCategory),
                      [page EXCEPT !.started = TRUE,
                                   !.activeCategory = urlCategory])

\* a direct call of getAllProducts, as getProductById makes
CallGetAllProducts ==
    /\ page.name = "shop"
    /\ GetAllProducts(Call("getAllProducts", Null), page)

\* getFeaturedProducts: the cached featured list, or the featured products
\* of getAllProducts
GetFeaturedProducts ==
    /\ page.name = "shop"
    /\ IF page.featuredProductsCache # Null
       THEN UNCHANGED <<cart, users, orders, session, buyNowItem, page, clock>>
       ELSE GetAllProducts(Call("getFeaturedProducts", Null), page)

\* the click listener of a category button, which initCategoryFilters
\* registers when initProducts has rendered the grid
ClickCategory(category) ==
    /\ page.name = "shop"
    /\ page.filters
    /\ GetAllProducts(Call("category", category),
                      [page EXCEPT !.activeCategory = category])

\* the input listener of the search box
SearchInput(value) ==
    /\ page.name = "shop"
    /\ GetAllProducts(Call("search", toLowerCase(value)), page)

\* the categories of the URL and of the buttons, and what is typed
UrlCategoryArgs == { Null, Str(CategoryMen), Str(CategorySale) }
CategoryArgs == { Str(CategoryAll), Str(CategoryMen), Str(CategorySale) }
SearchArgs == { <<>>, <<"B">>, <<"m", "e">> }

ShopInit ==
    /\ cart = Absent
    /\ users = Absent
    /\ orders = Absent
    /\ session = Absent
    /\ buyNowItem = Absent
    /\ \E source \in SourceArgs : page = ShopPage(source)
    /\ clock = 0
    /\ lastOp = InitHistory
    /\ prevOp = InitHistory

ShopNext ==
    \/ \E urlCategory \in UrlCategoryArgs :
          InitProducts(urlCategory) /\ NoHistory
    \/ CallGetAllProducts /\ NoHistory
    \/ GetFeaturedProducts /\ NoHistory
    \/ \E category \in CategoryArgs : ClickCategory(category) /\ NoHistory
    \/ \E value \in SearchArgs : SearchInput(value) /\ NoHistory
    \/ \E i \in 1..MaxPending, ok \in BOOLEAN : FetchDone(i, ok) /\ NoHistory

SpecShop == ShopInit /\ [][ShopNext]_vars

(***************************************************************************)
(* Two tabs on the same local storage.  addToCart and saveOrder read the   *)
(* key into a local array, change the array and write it back; a tab's     *)
(* read and its write are two steps, and the other tab may act in between. *)
(* page holds, for each tab, the call it is in and the call's locals.      *)
(***************************************************************************)
Tabs == {1, 2}

\* the other tab
Other(t) == 3 - t

\* the array written back by a call, given the array it read and the array
\* the key holds at the write, taken as the key's array
keyArray(local, stored) == stored

\* the array written back by a call: `const cart = getCart()` and
\* `const orders = JSON.parse(...)` are locals, changed and written back
\* without another read of the key
localArray(local, stored) == local

\* no call in progress
TabIdle == [pc |-> "idle"]

\* writes: the tabs in the order of their writes; raced: both tabs had read
\* when the first write was made (history)
TabsPage ==
    [name |-> "tabs", tab |-> [t \in Tabs |-> TabIdle], writes |-> <<>>,
     raced |-> FALSE]

\* page after the write of tab t, whose call ends as done
Written(t, done) ==
    [page EXCEPT !.tab[t] = done,
                 !.writes = Append(@, t),
                 !.raced = IF page.writes = <<>>
                           THEN page.tab[Other(t)].pc = "read"
                           ELSE @]

\* addToCart(product, 1, null, null) in tab t, up to `const cart = getCart()`
TabGetCart(t, product) ==
    /\ page.name = "tabs"
    /\ page.tab[t].pc = "idle"
    /\ ~InvalidProduct(product)
    /\ page' = [page EXCEPT !.tab[t] =
                   [pc |-> "read", op |-> "addToCart", product |-> product,
                    local |-> getCart(cart)]]
    /\ UNCHANGED <<cart, users, orders, session, buyNowItem, clock>>

\* the rest of addToCart in tab t: merge or push, then saveCart(cart)
TabSaveCart(t, dt) ==
    /\ page.name = "tabs"
    /\ page.tab[t].pc = "read"
    /\ page.tab[t].op = "addToCart"
    /\ LET now == clock + dt
           call == page.tab[t]
           saved == addToCart(localArray(call.local, getCart(cart)),
                              call.product, 1, Null, Null, now)
       IN /\ now <= MaxClock
          /\ Len(saved) <= MaxLines + 1
          /\ \A i \in 1..Len(saved) : saved[i].quantity \in LineQuantities
          /\ clock' = now
          /\ cart' = saveCart(saved)
          /\ page' = Written(t, [call EXCEPT !.pc = "done"] @@ [at |-> now])
    /\ UNCHANGED <<users, orders, session, buyNowItem>>

\* processOrder in tab t up to the read of the log in saveOrder(order)
TabGetOrders(t, dtId, dtDate) ==
    /\ page.name = "tabs"
    /\ page.tab[t].pc = "idle"
    /\ LET idNow == clock + dtId
           now == idNow + dtDate
       IN /\ now <= MaxClock
          /\ clock' = now
          /\ page' = [page EXCEPT !.tab[t] =
                         [pc |-> "read", op |-> "saveOrder",
                          order |-> stringifyOrder(
                                        buildOrder(ValidForm, Null, idNow,
                                                   now)),
                          local |-> getOrders(orders)]]
    /\ UNCHANGED <<cart, users, orders, session, buyNowItem>>

\* the rest of saveOrder in tab t: orders.push(order), then setItem, and
\* the rest of processOrder in cart mode: clearCart() and the removal of
\* the buy-now item
TabSetOrders(t) ==
    /\ page.name = "tabs"
    /\ page.tab[t].pc = "read"
    /\ page.tab[t].op = "saveOrder"
    /\ LET call == page.tab[t]
       IN /\ orders' = Json(Append(localArray(call.local, getOrders(orders)),
                                   call.order))
          /\ cart' = IF clearsCart(Null) THEN clearCart ELSE cart
          /\ buyNowItem' = removeBuyNowItem(Null)
          /\ page' = Written(t, [call EXCEPT !.pc = "done"])
    /\ UNCHANGED <<users, session, clock>>

\* the products the tabs add
TabProductArgs == { Product(1, 200000), Product(2, 500000) }

\* the cart stored before the tabs act
TabCartArgs ==
    { Absent, saveCart(<<newLine(Product(3, 199900), 1, Null, Null, 0)>>) }

TabInit ==
    /\ cart \in TabCartArgs
    /\ users = Absent
    /\ orders = Absent
    /\ session = Absent
    /\ buyNowItem = Absent
    /\ page = TabsPage
    /\ clock = 0
    /\ lastOp = InitHistory
    /\ prevOp = InitHistory

TabNext ==
    \/ \E t \in Tabs, product \in TabProductArgs :
          TabGetCart(t, product) /\ NoHistory
    \/ \E t \in Tabs, dt \in Ticks : TabSaveCart(t, dt) /\ NoHistory
    \/ \E t \in Tabs, dtId, dtDate \in Ticks :
          TabGetOrders(t, dtId, dtDate) /\ NoHistory
    \/ \E t \in Tabs : TabSetOrders(t) /\ NoHistory

SpecTabs == TabInit /\ [][TabNext]_vars

(***************************************************************************)
(* Properties of the cart (SpecCart).                                      *)
(***************************************************************************)
\* the lines of the stored cart
Lines == getCart(cart)

\* the lines addToCart(product, _, size, color) merges into
LinesFor(items, product, size, color) ==
    { i \in 1..Len(items) :
        items[i].id = product.id /\ items[i].size = size /\ items[i].color = color }

\* C1: the stored cart holds at most one line per identity key
\* (productId, size or "default", color or "default"), whatever sizes and
\* colors were passed to addItem.
C1_OneLinePerIdentityKey ==
    \A i, j \in 1..Len(Lines) :
        cartItemId(Lines[i]) = cartItemId(Lines[j]) => i = j

\* C2, first call: addItem for a product, size and color the cart has no
\* line for appends exactly one line with the quantity given and leaves the
\* other lines as they were.
C2_FirstAdd ==
    (/\ lastOp'.op = "addToCart"
     /\ lastOp'.result
     /\ LinesFor(Lines, lastOp'.product, lastOp'.size, lastOp'.color) = {})
    => /\ ~lastOp'.merged
       /\ Len(getCart(cart')) = Len(Lines) + 1
       /\ SubSeq(getCart(cart'), 1, Len(Lines)) = Lines
       /\ LinesFor(getCart(cart'), lastOp'.product, lastOp'.size, lastOp'.color)
            = {Len(Lines) + 1}
       /\ getCart(cart')[Len(Lines) + 1].quantity = lastOp'.quantity

\* C2, second call: addItem again for the same product, size and color adds
\* no line; the one line of the triple holds q1 + q2 and the other lines are
\* as they were.
C2_SecondAdd ==
    (/\ lastOp'.op = "addToCart"
     /\ lastOp'.result
     /\ prevOp'.op = "addToCart"
     /\ prevOp'.result
     /\ ~prevOp'.merged)
    => LET after == getCart(cart')
           hits == LinesFor(after, lastOp'.product, lastOp'.size, lastOp'.color)
       IN /\ Len(after) = Len(Lines)
          /\ Cardinality(hits) = 1
          /\ \A i \in hits : after[i].quantity = prevOp'.quantity + lastOp'.quantity
          /\ \A i \in (1..Len(after)) \ hits : after[i] = Lines[i]

\* C2: for a product addToCart accepts (one with a non-zero id) and a size
\* and color the cart has no line for, addItem(product, q1, size, color)
\* followed by addItem(product, q2, size, color) yields exactly one line for
\* the triple, with quantity q1 + q2; the cart grows by one line, not two,
\* and every other line is unchanged.
C2_AddTwiceMerges == [][C2_FirstAdd /\ C2_SecondAdd]_vars

\* C2 happens: two calls in a row for the same product, size and color, the
\* first on a cart with another line and none for the triple.
C2_Witness ==
    /\ lastOp.op = "addToCart" /\ lastOp.result /\ lastOp.merged
    /\ prevOp.op = "addToCart" /\ prevOp.result /\ ~prevOp.merged
    /\ prevOp.quantity = 1 /\ lastOp.quantity = 1
    /\ Len(Lines) = 2
    /\ \E i \in LinesFor(Lines, lastOp.product, lastOp.size, lastOp.color) :
          Lines[i].quantity = 2

\* C3: every line of the stored cart has a quantity >= 1, and itemCount()
\* is >= 0, whatever integer quantities were passed.
C3_QuantityAtLeastOne ==
    /\ \A i \in 1..Len(Lines) : Lines[i].quantity >= 1
    /\ getCartItemCount(cart) >= 0

(***************************************************************************)
(* Properties of the orders (Spec).                                        *)
(***************************************************************************)
\* the order log
Log == getOrders(orders)

\* a step of processOrder: the only step that changes the order log
OrderPlaced == getOrders(orders') # Log

\* the order a step of processOrder appended
NewOrder == getOrders(orders')[Len(getOrders(orders'))]

\* the step appended exactly one order to the log
AppendedOne ==
    /\ Len(getOrders(orders')) = Len(Log) + 1
    /\ SubSeq(getOrders(orders'), 1, Len(Log)) = Log

RECURSIVE LineSum(_)
\* the sum of price * quantity over the lines
LineSum(items) ==
    IF items = <<>> THEN 0
    ELSE Head(items).price * Head(items).quantity + LineSum(Tail(items))

\* C4 as stated, for the orders whose amounts are numbers: the stored tax is
\* 8% of the stored subtotal rounded to two decimal places, and the stored
\* total is subtotal + shipping + tax.
C4_TaxRoundedToCents ==
    \A i \in 1..Len(Log) :
        Log[i].subtotal.t = "number" =>
            /\ Log[i].tax = Num(((Log[i].subtotal.n * 8 + 5000) \div 10000) * 100)
            /\ Log[i].total = Num(Log[i].subtotal.n + Log[i].shipping.n + Log[i].tax.n)

\* C4, amended: the stored tax of every order is exactly 8% of its stored
\* subtotal, not rounded, and the stored total is subtotal + shipping + tax;
\* an order whose item carries no price or quantity stores null for all
\* three.
C4_TaxExact ==
    \A i \in 1..Len(Log) :
        IF Log[i].subtotal.t = "number"
        THEN /\ Log[i].tax.t = "number"
             /\ Log[i].tax.n * 100 = Log[i].subtotal.n * 8
             /\ Log[i].shipping = Num(Shipping)
             /\ Log[i].total = Num(Log[i].subtotal.n + Log[i].shipping.n + Log[i].tax.n)
        ELSE /\ Log[i].subtotal = Null
             /\ Log[i].tax = Null
             /\ Log[i].total = Null

\* C4 happens: an order is stored whose tax is no whole number of cents.
C4_Witness ==
    \E i \in 1..Len(Log) :
        /\ Log[i].subtotal.t = "number"
        /\ Log[i].tax.n % 100 # 0

\* C5: the order log never holds a cart-mode order with zero items.
C5_NoEmptyCartOrder ==
    \A i \in 1..Len(Log) : Log[i].mode = "cart" => Log[i].items # <<>>

\* C6: the order log never holds a buy-now order whose single item lacks a
\* price and quantity, with subtotal and total undefined.
C6_NoOrderWithoutBuyNowItem ==
    \A i \in 1..Len(Log) :
        Log[i].mode = "buy-now" =>
            /\ {"price", "quantity"} \subseteq DOMAIN Log[i].items[1]
            /\ Log[i].subtotal.t = "number"
            /\ Log[i].total.t = "number"

\* C7: the orders of the log have pairwise distinct ids.
C7_DistinctOrderIds ==
    \A i, j \in 1..Len(Log) : Log[i].id = Log[j].id => i = j

\* a step that places a cart-mode order from a non-empty cart
C8_Step ==
    (/\ OrderPlaced
     /\ ~IsBuyNow(page.mode)
     /\ Lines # <<>>)
    => /\ AppendedOne
       /\ NewOrder.mode = "cart"
       /\ NewOrder.items = Lines
       /\ NewOrder.subtotal = Num(LineSum(Lines))
       /\ (Len(Lines) = 1 /\ Lines[1].price = 200000 /\ Lines[1].quantity = 2)
            => /\ NewOrder.subtotal = Num(400000)
               /\ NewOrder.shipping = Num(99900)
               /\ NewOrder.tax = Num(32000)
               /\ NewOrder.total = Num(531900)
       /\ getCart(cart') = <<>>
       /\ getCartTotal(cart') = 0
       /\ getCartItemCount(cart') = 0

\* C8: placing an order in cart mode with a non-empty cart appends one
\* order whose items are the cart's lines at submission and whose subtotal
\* is the sum of price * quantity over them (one line of 20.00 x 2 gives
\* subtotal 40.00, shipping 9.99, tax 3.20, total 53.19); afterwards
\* getCart() returns no lines and total() and itemCount() are 0.
C8_CartOrder == [][C8_Step]_vars

\* C8 happens: an order was placed from a cart of one line 20.00 x 2, its
\* total is 53.19 and the cart is empty.
C8_Witness ==
    /\ page.name # "other"
    /\ page.placed.mode = "cart"
    /\ Len(getCart(page.placed.cartBefore)) = 1
    /\ getCart(page.placed.cartBefore)[1].price = 200000
    /\ getCart(page.placed.cartBefore)[1].quantity = 2
    /\ page.placed.order.total = Num(531900)
    /\ Log # <<>>
    /\ Log[Len(Log)] = stringifyOrder(page.placed.order)
    /\ Lines = <<>>

\* a step that places a buy-now order
C9_Step ==
    (OrderPlaced /\ IsBuyNow(page.mode))
    => /\ AppendedOne
       /\ NewOrder.mode = "buy-now"
       /\ cart' = cart
       /\ buyNowItem.kind = "json"
            => /\ NewOrder.items = <<buyNowItem.val>>
               /\ NewOrder.subtotal = Num(buyNowItem.val.price * buyNowItem.val.quantity)
               /\ NewOrder.shipping = Num(99900)
               /\ (buyNowItem.val.price = 500000 /\ buyNowItem.val.quantity = 1)
                    => /\ NewOrder.tax = Num(40000)
                       /\ NewOrder.total = Num(639900)

\* C9: placing an order in buy-now mode appends one order whose items are
\* the single buy-now item, with subtotal price * quantity and shipping 9.99
\* (50.00 x 1 gives tax 4.00, total 63.99), and leaves the stored cart as it
\* was, whatever it held.
C9_BuyNowOrder == [][C9_Step]_vars

\* C9 happens: a buy-now order of 50.00 x 1 was placed, total 63.99, while
\* the cart held lines, and the cart still holds them.
C9_Witness ==
    /\ page.name # "other"
    /\ page.placed.mode = "buy-now"
    /\ page.placed.buyNowBefore.kind = "json"
    /\ page.placed.buyNowBefore.val.price = 500000
    /\ page.placed.buyNowBefore.val.quantity = 1
    /\ page.placed.order.total = Num(639900)
    /\ getCart(page.placed.cartBefore) # <<>>
    /\ cart = page.placed.cartBefore

\* C10: when placeOrder completes, in cart mode or in buy-now mode, no
\* buy-now item is left in session storage.
C10_BuyNowItemCleared == [][OrderPlaced => buyNowItem' = Absent]_vars

\* C10 happens: a cart-mode order was placed while a buy-now item was
\* stored, and the item is gone.
C10_Witness ==
    /\ page.name # "other"
    /\ page.placed.mode = "cart"
    /\ page.placed.buyNowBefore.kind = "json"
    /\ buyNowItem = Absent

\* C11: every cart-mode order of the log has shipping 9.99 when its
\* subtotal is > 0 and shipping 0 when its subtotal is 0; every buy-now
\* order has shipping 9.99.
C11_ShippingPolicy ==
    \A i \in 1..Len(Log) :
        /\ Log[i].mode = "cart" =>
              /\ Log[i].subtotal.t = "number"
              /\ Log[i].shipping = Num(IF Log[i].subtotal.n > 0 THEN 99900 ELSE 0)
        /\ Log[i].mode = "buy-now" => Log[i].shipping = Num(99900)

\* a step leaves the log as it is or appends one order to its end
C12_Step ==
    /\ Log' = Log \/ AppendedOne
    /\ (page.name = "checkout" /\ page'.name = "success") => AppendedOne

\* C12: the order log is append-only: every order placement extends it by
\* exactly one entry at the end, every order stored before keeps its
\* position and all its fields, and no step removes or rewrites an order.
C12_AppendOnly == [][C12_Step]_vars

\* C12 happens: a second order was placed and the log holds two orders, the
\* last of them the one just placed.
C12_Witness ==
    /\ Len(Log) = 2
    /\ page.name = "success"
    /\ Log[2] = stringifyOrder(page.placed.order)
    /\ Log[1] # Log[2]

(***************************************************************************)
(* Properties of registration and login (SpecAuth).                        *)
(***************************************************************************)
\* the user list
Users == getUsers(users)

\* upper-case letters and their lower-case forms
FoldPairs == { <<"A", "a">>, <<"B", "b">>, <<"C", "c">>, <<"D", "d">>,
               <<"E", "e">>, <<"F", "f">> }

\* a character without its case
FoldChar(c) ==
    IF \E q \in FoldPairs : q[1] = c
    THEN (CHOOSE q \in FoldPairs : q[1] = c)[2]
    ELSE c

\* an email as the claims compare it: without the surrounding whitespace
\* and without case
FoldEmail(e) ==
    LET inner == { i \in 1..Len(e) : e[i] \notin Whitespace }
        first == CHOOSE i \in inner : \A j \in inner : i <= j
        last == CHOOSE i \in inner : \A j \in inner : j <= i
    IN IF inner = {} THEN <<>>
       ELSE [k \in 1..(last - first + 1) |-> FoldChar(e[first + k - 1])]

\* a field with nothing but whitespace in it
Blank(text) == \A i \in 1..Len(text) : text[i] \in Whitespace

\* the password policy: at least 8 characters, an upper-case letter, a
\* lower-case letter, a digit and a symbol (a character that is neither a
\* letter nor a digit)
PolicyOk(password) ==
    /\ Len(password) >= 8
    /\ \E i \in 1..Len(password) : password[i] \in UpperCase
    /\ \E i \in 1..Len(password) : password[i] \in LowerCase
    /\ \E i \in 1..Len(password) : password[i] \in DigitChars
    /\ \E i \in 1..Len(password) :
          password[i] \notin (UpperCase \cup LowerCase \cup DigitChars)

\* the email is that of a registered user
Registered(email) == \E i \in 1..Len(Users) : FoldEmail(Users[i].email) = FoldEmail(email)

\* no two users of the list have the same email
C13_NoTwoUsers ==
    \A i, j \in 1..Len(Users) :
        FoldEmail(Users[i].email) = FoldEmail(Users[j].email) => i = j

\* a registration of a registered email fails and leaves the list alone;
\* with the other fields in order the message is the duplicate-email one
C13_SecondRegistration ==
    (lastOp'.op = "register" /\ Registered(lastOp'.email))
    => /\ users' = users
       /\ lastOp'.error # ""
       /\ (/\ ~Blank(lastOp'.name)
           /\ lastOp'.password = lastOp'.confirmPassword
           /\ PolicyOk(lastOp'.password))
            => lastOp'.error = "Email already registered"

\* C13: after any sequence of register calls, emails that differ only in
\* letter case or surrounding whitespace counting as the same, the user list
\* holds no two users with the same email; a second registration of a
\* registered email fails with the duplicate-email error and the list keeps
\* its length.
C13_UniqueEmail == []C13_NoTwoUsers /\ [][C13_SecondRegistration]_vars

\* C13 happens: an email registered in one spelling was registered again in
\* another and refused as a duplicate.
C13_Witness ==
    /\ lastOp.op = "register"
    /\ lastOp.error = "Email already registered"
    /\ Len(Users) = 1
    /\ Users[1].email # lastOp.email
    /\ FoldEmail(Users[1].email) = FoldEmail(lastOp.email)

\* the register call is one the claim says fails
C14_MustFail(call) ==
    \/ Blank(call.name) \/ Blank(call.email)
    \/ Blank(call.password) \/ Blank(call.confirmPassword)
    \/ call.password # call.confirmPassword
    \/ ~PolicyOk(call.password)
    \/ Registered(call.email)

\* C14: a register call fails and leaves the user list and the session,
\* present or absent, unchanged whenever a field is blank, the password
\* differs from its confirmation, the password violates the policy, or the
\* email is already registered.
C14_RegisterFails ==
    [][(lastOp'.op = "register" /\ C14_MustFail(lastOp'))
       => /\ lastOp'.error # ""
          /\ users' = users
          /\ session' = session]_vars

\* C14 happens: with a user registered and logged in, a registration with a
\* password without a digit was refused.
C14_Witness ==
    /\ lastOp.op = "register"
    /\ ~Blank(lastOp.name) /\ ~Blank(lastOp.email)
    /\ lastOp.password = lastOp.confirmPassword
    /\ Len(lastOp.password) >= 8
    /\ ~Registered(lastOp.email)
    /\ \A i \in 1..Len(lastOp.password) : lastOp.password[i] \notin DigitChars
    /\ lastOp.error # ""
    /\ Len(Users) = 1
    /\ session # Absent

\* the users whose stored email is the typed one, trimmed and lower-cased,
\* and whose stored password is the typed one
C15_Matches(call) ==
    { i \in 1..Len(Users) :
        /\ Users[i].email = FoldEmail(call.email)
        /\ Users[i].password = call.password }

\* a login step with a matching user sets the session to that user
C15_Success ==
    (lastOp'.op = "login" /\ C15_Matches(lastOp') # {})
    => /\ lastOp'.error = ""
       /\ \E i \in C15_Matches(lastOp') :
             session' = Json([email |-> Users[i].email, name |-> Users[i].name,
                              loginTime |-> clock'])

\* C15 as stated: login establishes a session if and only if a user has
\* the trimmed, case-folded email and exactly the password; in every other
\* case the outcome is the error 'Invalid email or password' and the
\* session is left as it was.
C15_GenericErrorOtherwise ==
    [][/\ C15_Success
       /\ (lastOp'.op = "login" /\ C15_Matches(lastOp') = {})
            => /\ lastOp'.error = "Invalid email or password"
               /\ session' = session]_vars

\* C15, amended: login establishes a session if and only if a user has the
\* trimmed, case-folded email and exactly the password; in every other case
\* the session is left as it was, and the error is 'Please enter email and
\* password' when the email is blank or the password empty and 'Invalid
\* email or password' otherwise, for an unknown email and a wrong password
\* alike.
C15_LoginOutcome ==
    [][/\ C15_Success
       /\ (lastOp'.op = "login" /\ C15_Matches(lastOp') = {})
            => /\ lastOp'.error =
                    IF Blank(lastOp'.email) \/ lastOp'.password = <<>>
                    THEN "Please enter email and password"
                    ELSE "Invalid email or password"
               /\ session' = session]_vars

\* C15 happens: a login with the email typed in another spelling succeeded,
\* and the session is that of the stored user.
C15_Witness ==
    /\ lastOp.op = "login"
    /\ lastOp.error = ""
    /\ session # Absent
    /\ session.val.email # lastOp.email
    /\ session.val.email = FoldEmail(lastOp.email)

\* C16: a successful register call appends exactly one new user, with the
\* lower-cased email, to the end of the user list, leaves the existing users
\* unchanged, and sets the session to the new user's email and name,
\* replacing any session there was.
C16_RegisterSucceeds ==
    [][(/\ lastOp'.op = "register"
        /\ (lastOp'.error = "" \/ users' # users \/ session' # session))
       => /\ Len(getUsers(users')) = Len(Users) + 1
          /\ SubSeq(getUsers(users'), 1, Len(Users)) = Users
          /\ getUsers(users')[Len(Users) + 1].email = FoldEmail(lastOp'.email)
          /\ session' # Absent
          /\ getSession(session').email = getUsers(users')[Len(Users) + 1].email
          /\ getSession(session').name = getUsers(users')[Len(Users) + 1].name]_vars

\* C16 happens: a second user registered, with a capital in the email typed,
\* while the first was logged in; the session is the second user's.
C16_Witness ==
    /\ lastOp.op = "register"
    /\ lastOp.error = ""
    /\ Len(Users) = 2
    /\ lastOp.sessionBefore # Absent
    /\ lastOp.sessionBefore.val.email = Users[1].email
    /\ session # Absent
    /\ session.val.email = Users[2].email
    /\ lastOp.email # Users[2].email

\* C17: when the text stored under the cart, users, session, orders or
\* buy-now-item key is not parseable JSON, every read path (getCart and the
\* operations built on it, getUsers, getSession, saveOrder, the checkout
\* renderers) completes normally: no call ends by throwing.
C17_CorruptJsonNeverRaises ==
    "threw" \in DOMAIN lastOp => ~lastOp.threw

(***************************************************************************)
(* Further properties of the cart (SpecCart).                              *)
(***************************************************************************)
\* the item ids of the lines
Keys(items) == { cartItemId(items[i]) : i \in 1..Len(items) }

RECURSIVE Without(_, _)
\* the lines whose item id is not the given one, in their order
Without(items, itemId) ==
    IF items = <<>> THEN <<>>
    ELSE IF cartItemId(Head(items)) = itemId
         THEN Without(Tail(items), itemId)
         ELSE <<Head(items)>> \o Without(Tail(items), itemId)

RECURSIVE Only(_, _)
\* the lines whose item id is the given one
Only(items, itemId) ==
    IF items = <<>> THEN <<>>
    ELSE IF cartItemId(Head(items)) = itemId
         THEN <<Head(items)>> \o Only(Tail(items), itemId)
         ELSE Only(Tail(items), itemId)

\* what removeItem(key) does to the cart on a key of a line
C18_Remove ==
    (lastOp'.op = "removeFromCart" /\ lastOp'.itemId \in Keys(Lines))
    => /\ cart' = Json(Without(Lines, lastOp'.itemId))
       /\ lastOp'.notification = "Item removed from cart"

\* what updateQuantity(key, n) does for n < 1 on a key of a line
C18_Update ==
    (/\ lastOp'.op = "updateCartItemQuantity"
     /\ lastOp'.newQuantity < 1
     /\ lastOp'.itemId \in Keys(Lines))
    => /\ cart' = Json(Without(Lines, lastOp'.itemId))
       /\ cart' = saveCart(removeFromCart(Lines, lastOp'.itemId))
       /\ lastOp'.itemId \notin Keys(getCart(cart'))
       /\ lastOp'.notification = "Item removed from cart"

\* C18: for the key of a line, updateQuantity(key, 0) and updateQuantity(key,
\* n) for negative n leave the stored cart exactly as removeItem(key) does:
\* the line with the key is gone, the other lines keep their order and
\* contents, and the same 'removed' notification is shown.
C18_UpdateBelowOneRemoves == [][C18_Remove /\ C18_Update]_vars

\* C18 happens: updateQuantity(key, -5) on the key of one of two lines left
\* the other line.
C18_Witness ==
    /\ lastOp.op = "updateCartItemQuantity"
    /\ lastOp.newQuantity = -5
    /\ lastOp.itemId # "9-default-default"
    /\ lastOp.itemId \notin Keys(Lines)
    /\ Len(Lines) = 1

\* how a step of the cart changes total()
C19_Step ==
    LET total == getCartTotal(cart)
        after == getCartTotal(cart')
        op == lastOp'
    IN /\ (op.op = "addToCart" /\ op.result)
            => after = total + op.product.price * op.quantity
       /\ (op.op = "addToCart" /\ ~op.result) => after = total
       /\ (op.op = "removeFromCart" \/ (op.op = "updateCartItemQuantity" /\ op.newQuantity < 1))
            => after = total - LineSum(Only(Lines, op.itemId))
       /\ (op.op = "updateCartItemQuantity" /\ op.newQuantity >= 1)
            => IF op.itemId \in Keys(Lines)
               THEN after = total + Head(Only(Lines, op.itemId)).price
                                      * (op.newQuantity - Head(Only(Lines, op.itemId)).quantity)
               ELSE after = total
       /\ op.op = "clearCart" => after = 0

\* C19: after any sequence of addItem / updateQuantity / removeItem calls,
\* total() is the sum of price * quantity over the lines that survive:
\* removed lines contribute nothing, merged adds their combined quantity,
\* updated lines their latest quantity.
C19_TotalOfSurvivingLines ==
    [](getCartTotal(cart) = LineSum(Lines)) /\ [][C19_Step]_vars

\* C19 happens: after an update to quantity 2 the cart holds 20.00 x 2 and
\* 50.00 x 1 and total() is 90.00.
C19_Witness ==
    /\ lastOp.op = "updateCartItemQuantity"
    /\ lastOp.newQuantity = 2
    /\ Len(Lines) = 2
    /\ \E i, j \in 1..2 :
          /\ Lines[i].price = 200000 /\ Lines[i].quantity = 2
          /\ cartItemId(Lines[i]) = lastOp.itemId
          /\ Lines[j].price = 500000 /\ Lines[j].quantity = 1
    /\ getCartTotal(cart) = 900000

\* C20: removeItem(key) followed by addItem of the same product, size and
\* color produces a fresh line: its quantity is the quantity newly added,
\* its addedAt is the clock value at the re-add, and it is the last line of
\* the cart.
C20_ReAddIsFresh ==
    [][(/\ lastOp.op = "removeFromCart"
        /\ lastOp'.op = "addToCart"
        /\ lastOp'.result
        /\ lastOp.itemId = cartItemId([id |-> lastOp'.product.id,
                                       size |-> lastOp'.size,
                                       color |-> lastOp'.color]))
       => /\ Len(getCart(cart')) = Len(Lines) + 1
          /\ SubSeq(getCart(cart'), 1, Len(Lines)) = Lines
          /\ getCart(cart')[Len(Lines) + 1].id = lastOp'.product.id
          /\ getCart(cart')[Len(Lines) + 1].size = lastOp'.size
          /\ getCart(cart')[Len(Lines) + 1].color = lastOp'.color
          /\ getCart(cart')[Len(Lines) + 1].quantity = lastOp'.quantity
          /\ getCart(cart')[Len(Lines) + 1].addedAt = clock']_vars

\* C20 happens: a line added at clock 0 was removed and added again at
\* clock 1; it is the last line, stamped 1, with the quantity of the re-add.
C20_Witness ==
    /\ prevOp.op = "removeFromCart"
    /\ prevOp.itemId # "9-default-default"
    /\ lastOp.op = "addToCart"
    /\ lastOp.result
    /\ Len(Lines) = 2
    /\ Lines[1].addedAt = 0
    /\ Lines[2].addedAt = 1
    /\ cartItemId(Lines[2]) = prevOp.itemId
    /\ Lines[2].quantity = lastOp.quantity
    /\ clock = 1

\* C21: addItem returns failure, leaving the stored cart unchanged, exactly
\* when the product is absent or has no id; for every product that carries
\* an id, any integer, addItem returns success.
C21_FailsOnlyWithoutId ==
    lastOp.op = "addToCart" => (lastOp.result <=> "id" \in DOMAIN lastOp.product)

(***************************************************************************)
(* Properties of the checkout form (SpecForm).                             *)
(***************************************************************************)
\* an email that is not text@text.text without whitespace and further @
C22_MalformedEmail(e) ==
    LET ats == { i \in 1..Len(e) : e[i] = "@" }
    IN \/ Cardinality(ats) # 1
       \/ \E i \in 1..Len(e) : e[i] = " "
       \/ \A i \in ats : i = 1 \/ ~\E j \in 1..Len(e) :
                                      e[j] = "." /\ i + 1 < j /\ j < Len(e)

\* the form data fails the validation
C22_Invalid(form) ==
    \/ form.email = <<>> \/ C22_MalformedEmail(form.email)
    \/ form.shipping.firstName = "" \/ form.shipping.lastName = ""
    \/ form.shipping.address = "" \/ form.shipping.city = ""
    \/ form.shipping.zip = ""
    \/ form.shipping.phone = ""
    \/ Len(form.payment.cardNumber) < 16
    \/ form.payment.cardName = ""
    \/ form.payment.expiry = "" \/ form.payment.cvv = ""

\* C22: a checkout submission whose form data fails validation (missing or
\* malformed email, missing first or last name, missing address, city or
\* zip, missing phone, card number shorter than 16 characters, missing card
\* name, missing expiry or CVV) is rejected before any mutation: no order is
\* appended, and the cart and the buy-now item are left unchanged.
C22_RejectedBeforeMutation ==
    [][(lastOp'.op = "submit" /\ C22_Invalid(lastOp'.form))
       => /\ ~lastOp'.accepted
          /\ orders' = orders
          /\ cart' = cart
          /\ buyNowItem' = buyNowItem]_vars

\* C22 happens: a form with a card number of 15 characters was submitted
\* with lines in the cart and a buy-now item stored; both are still there
\* and no order is in the log.
C22_Witness ==
    /\ lastOp.op = "submit"
    /\ Len(lastOp.form.payment.cardNumber) = 15
    /\ ~lastOp.accepted
    /\ page.name = "checkout"
    /\ Lines # <<>>
    /\ buyNowItem # Absent
    /\ Log = <<>>

\* C28: in cart mode the items of the order created on submit are the items
\* renderCartCheckout showed when the page was initialised, and its total,
\* written with two decimals, is the total shown, whatever was done to the
\* cart in between.
C28_OrderMatchesPage ==
    (/\ lastOp.op = "submit" /\ lastOp.accepted
     /\ page.name = "success"
     /\ prevOp.op = "initCheckout" /\ prevOp.rendered)
    => /\ Log[Len(Log)].items = prevOp.items
       /\ toFixed2(Log[Len(Log)].total) = prevOp.total

\* C23: currentUser() is the user whose email equals the session's email,
\* and a session whose email matches no user of the list is treated as
\* logged-out: currentUser() is absent and the login check that gates
\* checkout reports not logged in.
C23_StaleSessionIsLoggedOut ==
    session # Absent =>
        IF \E i \in 1..Len(Users) : Users[i].email = session.val.email
        THEN /\ getCurrentUser(session, users) # Null
             /\ getCurrentUser(session, users).email = session.val.email
        ELSE /\ getCurrentUser(session, users) = Null
             /\ ~isLoggedIn

\* C24: the buy-now item does not outlive its checkout: once an order is
\* placed, or the buy-now checkout page is left without submitting, the item
\* is absent from session storage.
C24_BuyNowItemConsumed ==
    [][/\ OrderPlaced => buyNowItem' = Absent
       /\ (/\ page.name = "checkout" /\ IsBuyNow(page.mode)
           /\ page'.name = "other"
           /\ orders' = orders
           /\ buyNowItem' \in {buyNowItem, Absent})
            => buyNowItem' = Absent]_vars

\* a session is that of a user of the list, by email and name
C29_SessionOfUser ==
    session # Absent =>
        \E i \in 1..Len(Users) :
            /\ Users[i].email = session.val.email
            /\ Users[i].name = session.val.name

\* only register and login create a session, and logout leaves none
C29_Step ==
    /\ (session' # Absent /\ session' # session)
         => /\ lastOp'.op \in {"register", "login"}
            /\ lastOp'.error = ""
    /\ lastOp'.op = "logout" => session' = Absent

\* C29: after any sequence of register, login and logout operations in one
\* tab, starting from no session, a session that exists has the email of a
\* user of the user list and that user's name; register and login are the
\* only operations that create a session, and logout leaves none.
C29_SessionConsistent == []C29_SessionOfUser /\ [][C29_Step]_vars

\* C29 happens: with two users registered, the first logged in again after
\* a logout, and the session is the first user's.
C29_Witness ==
    /\ lastOp.op = "login"
    /\ lastOp.error = ""
    /\ Len(Users) = 2
    /\ session # Absent
    /\ session.val.email = Users[1].email
    /\ session.val.name = Users[1].name

\* C25: getAllProducts fetches the catalog once: in every state where a load
\* has succeeded, the fetches issued that did not fail number one, whatever
\* the interleaving of the calls, and the calls made afterwards issue none.
C25_FetchesOnce ==
    (page.name = "shop" /\ page.productsCache # Null)
        => page.fetches - page.failed <= 1

\* the result of the category filter for a category
C26_CategoryFilter(products, category) ==
    IF category = Str(CategoryAll) THEN products
    ELSE getProductsByCategory(products, category)

\* C26: for every active category (all, a literal category, "sale") and every
\* term, the search shows exactly the products of the category filter for
\* that category whose name, description or category contains the term.
C26_SearchWithinCategory ==
    (page.name = "shop" /\ page.grid.by = "search"
                        /\ page.grid.category # Null)
        => page.grid.products =
              SelectSeq(C26_CategoryFilter(page.grid.from, page.grid.category),
                        LAMBDA p :
                            \/ includes(toLowerCase(p.name), page.grid.term)
                            \/ includes(toLowerCase(p.description),
                                        page.grid.term)
                            \/ includes(toLowerCase(p.category),
                                        page.grid.term))

\* C30: whenever the catalog is loaded, what getFeaturedProducts returns is
\* exactly the featured products of the loaded list.
C30_FeaturedOfCatalog ==
    (page.name = "shop" /\ page.productsCache # Null
                        /\ page.featuredProductsCache # Null)
        => page.featuredProductsCache.a = filterFeatured(page.productsCache.a)

\* both tabs ran the same operation, both read before either wrote, and
\* both have written
C27_Raced(op) ==
    /\ page.name = "tabs"
    /\ Len(page.writes) = 2
    /\ page.raced
    /\ \A t \in Tabs : page.tab[t].op = op

\* the calls of the first and of the second writer
C27_First == page.tab[page.writes[1]]
C27_Second == page.tab[page.writes[2]]

\* the ids of the products of an array of lines
C27_Ids(items) == { items[i].id : i \in 1..Len(items) }

\* the orders of an array
C27_Orders(log) == { log[i] : i \in 1..Len(log) }

\* C27: when two tabs each run addToCart on the cart key, or saveOrder on
\* the order-log key, and both reads happen before either write, the stored
\* value is the second writer's operation applied to the value both tabs
\* read, and the line or order of the first writer is not in it: last write
\* wins, and nothing is merged.
C27_LastWriteWins ==
    /\ C27_Raced("addToCart") =>
          /\ cart = saveCart(addToCart(C27_First.local, C27_Second.product,
                                       1, Null, Null, C27_Second.at))
          /\ C27_First.product.id # C27_Second.product.id
                => C27_First.product.id \notin C27_Ids(getCart(cart))
    /\ C27_Raced("saveOrder") =>
          /\ orders = Json(Append(C27_First.local, C27_Second.order))
          /\ C27_First.order # C27_Second.order
                => C27_First.order \notin C27_Orders(getOrders(orders))

\* C27 happens: both tabs read a cart of one line, added different products
\* and wrote; the stored cart has the second writer's product and not the
\* first writer's.
C27_Witness ==
    /\ C27_Raced("addToCart")
    /\ Len(C27_First.local) = 1
    /\ C27_First.product.id # C27_Second.product.id
    /\ C27_Second.product.id \in C27_Ids(getCart(cart))
    /\ Len(getCart(cart)) = 2

====
